---- MODULE Spec2Model ----
(***************************************************************************)
(* EvoBF: a bounded BrainFuck interpreter (executor.py) and the genetic    *)
(* search that evolves programs for it (evolver.py, fitness.py, main.py).  *)
(*                                                                         *)
(* Programs are sequences of one-character strings.  Positions in a        *)
(* program and on the tape are 0-based, as in the source; the TLA+         *)
(* sequences that hold them are 1-based, so program[instr_ptr + 1] is the  *)
(* source's program[instr_ptr].                                            *)
(***************************************************************************)
EXTENDS Integers, Sequences, FiniteSets, TLC

VARIABLES
    \* execute(program, steps=, size=, initial=): arguments
    program, steps, size, initial,
    \* execute: locals
    tape, bracket_map, data_ptr, instr_ptr, executed,
    \* execute: position ("start" = entry, "loop" = at the while test, "done" = returned)
    pc,
    \* evolve(population_size, elite_count, generations, mutation_rate=,
    \* crossover_rate=): arguments
    population_size, elite_count, generations, mutation_rate, crossover_rate,
    \* evolve: locals
    population, scores, eval_inputs, best_prog, best_score, gen, new_population,
    final_inputs, final_scores,
    \* evolve: position, and the pair it returns
    phase, result,
    \* a call _select(sel_population, sel_fitnesses, rng): its position
    \* ("call" or "done") and what it returned or raised
    sel_population, sel_fitnesses, sel_pc, sel_outcome,
    \* a call _crossover(cx_a, cx_b, rng): its cut points, its position and the
    \* child it returned
    cx_a, cx_b, cut_a, cut_b, cx_child, cx_pc,
    \* a task object self, and a call of its generate_input or fitness: the tape
    \* generated or given as initial, the final tape given, the value returned
    self, task_tape, task_final, task_value, task_pc,
    \* main(): the parsed arguments, its position, the exception that ended it
    \* and the lines it printed
    main_args, main_pc, main_error, main_output,
    \* a call _mutate(mut_program, rng, mut_rate): chars, the cursor i, the
    \* iterations of the while loop completed, and its position
    mut_program, mut_rate, mut_chars, mut_i, mut_iters, mut_pc

execArgs == <<program, steps, size, initial>>
execVars == <<program, steps, size, initial, tape, bracket_map, data_ptr, instr_ptr, executed, pc>>
evolveArgs == <<population_size, elite_count, generations, mutation_rate, crossover_rate>>
evolveVars == <<population_size, elite_count, generations, mutation_rate, crossover_rate,
                population, scores, eval_inputs, best_prog, best_score, gen, new_population,
                final_inputs, final_scores, phase, result>>
selectVars == <<sel_population, sel_fitnesses, sel_pc, sel_outcome>>
crossVars == <<cx_a, cx_b, cut_a, cut_b, cx_child, cx_pc>>
taskVars == <<self, task_tape, task_final, task_value, task_pc>>
mainVars == <<main_args, main_pc, main_error, main_output>>
mutateVars == <<mut_program, mut_rate, mut_chars, mut_i, mut_iters, mut_pc>>
unitVars == <<crossVars, taskVars, mainVars, mutateVars>>
vars == <<execVars, evolveVars, selectVars, unitVars>>

(***************************************************************************)
(* Bounds of the model                                                     *)
(***************************************************************************)
MaxLen == 3         \* longest program given to execute
MaxSteps == 4       \* largest step budget given to execute
MaxSize == 2        \* largest tape size given to execute

\* The characters programs are drawn from: the six instructions and the two
\* characters of the evolver's alphabet that the executor ignores.
Chars == {">", "<", "+", "-", "[", "]", ".", ","}

\* Initial tapes given to execute: None/empty, shorter and longer than the
\* tape, values at both ends of the signed-byte range and outside it.
InitialTapes == { <<>>, <<1>>, <<2, 0>>, <<127, -128>>, <<128, -129>>, <<5, 3, 7>> }

RECURSIVE SeqsUpTo(_, _)
SeqsUpTo(S, n) ==
    IF n = 0 THEN { <<>> }
    ELSE LET shorter == SeqsUpTo(S, n - 1)
         IN  shorter \cup { Append(s, c) : s \in { t \in shorter : Len(t) = n - 1 }, c \in S }

Programs == SeqsUpTo(Chars, MaxLen)

Min(a, b) == IF a <= b THEN a ELSE b

(***************************************************************************)
(* executor.py                                                             *)
(***************************************************************************)

\* _wrap_byte with the modulus forgotten.
WrapByteNoWrap(value) == value

\* _wrap_byte
WrapByte(value) == ((value + 128) % 256) - 128

\* a dict, as a function on its set of keys
EmptyMap == [k \in {} |-> 0]
Put(map, key, val) == [k \in (DOMAIN map) \cup {key} |-> IF k = key THEN val ELSE map[k]]

\* pairs[open_pos] = pos; pairs[pos] = open_pos
RecordPair(pairs, open_pos, pos) == Put(Put(pairs, open_pos, pos), pos, open_pos)

\* Matching a closing bracket with the oldest open bracket instead of the newest.
StackTopOldest(stack) == 1

\* the index stack.pop() removes: the top of the stack
StackTop(stack) == Len(stack)

\* the for loop of _build_bracket_map, from position pos on
RECURSIVE BracketScan(_, _, _, _)
BracketScan(prog, pos, stack, pairs) ==
    IF pos >= Len(prog) THEN pairs
    ELSE LET char == prog[pos + 1] IN
         IF char = "[" THEN BracketScan(prog, pos + 1, Append(stack, pos), pairs)
         ELSE IF char = "]" /\ stack # <<>>
              THEN LET t == StackTop(stack)
                       open_pos == stack[t]
                       rest == [i \in 1..(Len(stack) - 1) |-> IF i < t THEN stack[i] ELSE stack[i + 1]]
                   IN  BracketScan(prog, pos + 1, rest, RecordPair(pairs, open_pos, pos))
              ELSE BracketScan(prog, pos + 1, stack, pairs)

\* _build_bracket_map
BuildBracketMap(prog) == BracketScan(prog, 0, <<>>, EmptyMap)

\* The tape initialisation without the padding of a short initial list.
InitTapeNoPad(init, sz) == [i \in 1..Min(sz, Len(init)) |-> WrapByte(init[i])]

\* Lines 57-63: initial (None is the empty list) padded with zeros or cut to
\* size cells, each then wrapped.
InitTape(init, sz) == [i \in 1..sz |-> WrapByte(IF i <= Len(init) THEN init[i] ELSE 0)]

\* The while test one step too generous.
LoopCondOffByOne(prog, budget, ip, done) == ip < Len(prog) /\ done <= budget

\* The while test without the step budget.
LoopCondNoBudget(prog, budget, ip, done) == ip < Len(prog)

\* while instr_ptr < prog_len and executed < steps
LoopCond(prog, budget, ip, done) == ip < Len(prog) /\ done < budget

\* Moving left without the modulus.
PtrLeftNoWrap(dp, sz) == dp - 1

\* data_ptr = (data_ptr + 1) % size
PtrRight(dp, sz) == (dp + 1) % sz

\* data_ptr = (data_ptr - 1) % size
PtrLeft(dp, sz) == (dp - 1) % sz

\* tape[data_ptr] = _wrap_byte(tape[data_ptr] + d), d = 1 or -1
CellAdd(tp, dp, d) == [tp EXCEPT ![dp + 1] = WrapByte(tp[dp + 1] + d)]

\* bracket_map.get(instr_ptr) with the start of the program as its default.
JumpDefaultStart(bmap, ip) == IF ip \in DOMAIN bmap THEN bmap[ip] ELSE -1

\* bracket_map.get(instr_ptr), then instr_ptr = match unless it is None
Jump(bmap, ip) == IF ip \in DOMAIN bmap THEN bmap[ip] ELSE ip

\* '[' jumping when the cell is not zero.
OpenTargetInverted(tp, dp, bmap, ip) == IF tp[dp + 1] # 0 THEN Jump(bmap, ip) ELSE ip

\* '[': the instruction pointer before the common instr_ptr += 1
OpenTarget(tp, dp, bmap, ip) == IF tp[dp + 1] = 0 THEN Jump(bmap, ip) ELSE ip

\* ']': the instruction pointer before the common instr_ptr += 1
CloseTarget(tp, dp, bmap, ip) == IF tp[dp + 1] # 0 THEN Jump(bmap, ip) ELSE ip

\* One pass through the body of the while loop, on the machine state
\* m = [tape, data_ptr, instr_ptr, executed].
StepCommand(prog, sz, bmap, m) ==
    LET command == prog[m.instr_ptr + 1]
        dp == m.data_ptr
        ip == m.instr_ptr
    IN  [ tape      |-> CASE command = "+" -> CellAdd(m.tape, dp, 1)
                          [] command = "-" -> CellAdd(m.tape, dp, -1)
                          [] OTHER -> m.tape,
          data_ptr  |-> CASE command = ">" -> PtrRight(dp, sz)
                          [] command = "<" -> PtrLeft(dp, sz)
                          [] OTHER -> dp,
          instr_ptr |-> (CASE command = "[" -> OpenTarget(m.tape, dp, bmap, ip)
                           [] command = "]" -> CloseTarget(m.tape, dp, bmap, ip)
                           [] OTHER -> ip) + 1,
          executed  |-> m.executed + 1 ]

\* the while loop of execute, run to its end; the tape it leaves
RECURSIVE RunLoop(_, _, _, _, _)
RunLoop(prog, budget, sz, bmap, m) ==
    IF LoopCond(prog, budget, m.instr_ptr, m.executed)
    THEN RunLoop(prog, budget, sz, bmap, StepCommand(prog, sz, bmap, m))
    ELSE m.tape

\* execute(program, steps=, size=, initial=) as a function of its arguments
Execute(prog, budget, sz, init) ==
    RunLoop(prog, budget, sz, BuildBracketMap(prog),
            [tape |-> InitTape(init, sz), data_ptr |-> 0, instr_ptr |-> 0, executed |-> 0])

(***************************************************************************)
(* fitness.py                                                              *)
(***************************************************************************)
RECURSIVE SumSeq(_)
SumSeq(xs) == IF xs = <<>> THEN 0 ELSE xs[1] + SumSeq(Tail(xs))

\* The error taken with its sign.
AbsSigned(x) == x

Abs(x) == IF x < 0 THEN -x ELSE x

Max(a, b) == IF a >= b THEN a ELSE b

\* a dataclass instance AdditionTask(size, min_value, max_value) or
\* TripleAdditionTask(size, min_value, max_value)
MakeTask(kind, sz, lo, hi) == [kind |-> kind, size |-> sz, min_value |-> lo, max_value |-> hi]

\* number of operands of the task: 2 for AdditionTask, 3 for TripleAdditionTask
Arity(task) == IF task.kind = "addition" THEN 2 ELSE 3

\* the two tasks as their dataclasses build them without arguments
AdditionTask == MakeTask("addition", 8, -64, 63)
TripleAdditionTask == MakeTask("triple", 8, -42, 42)

\* The lower end of the operands taken from min_value as it is.
OperandLowUnclamped(task) == task.min_value

\* low = max(0, self.min_value)
OperandLow(task) == Max(0, task.min_value)

\* generate_input: every tape the random source can make it return
TaskInputs(task) ==
    LET low == OperandLow(task)
        high == Max(low, task.max_value)
        n == Arity(task)
    IN  { [i \in 1..(n + Max(0, task.size - n)) |-> IF i <= n THEN ops[i] ELSE 0] :
              ops \in [1..n -> low..high] }

\* fitness(initial, final); the float is a whole number
Fitness(task, init, final) ==
    LET expected == SumSeq(SubSeq(init, 1, Arity(task)))
    IN  -Abs(final[1] - expected)

\* evaluate(program, task=, steps=, inputs=): lines 111-116
Evaluate(prog, task, budget, inputs) ==
    SumSeq([k \in 1..Len(inputs) |->
                Fitness(task, inputs[k], Execute(prog, budget, task.size, inputs[k]))])

(***************************************************************************)
(* evolver.py: the random source, _mutate, _crossover, _select             *)
(***************************************************************************)
\* Rates and the values of rng.random(), in hundredths: rng.random() is in
\* [0, 1), so a rate of 0 is never undercut and a rate of 100 always is.
Rates == {0, 50, 100}
RandomDraws == {0, 50, 99}

\* The symbols rng.choice(INSTRUCTIONS) is let to return.
Drawn == {"+", "-"}

\* the list chars without position i (0-based): chars.pop(i)
Pop(chars, i) == [k \in 1..(Len(chars) - 1) |-> IF k <= i THEN chars[k] ELSE chars[k + 1]]

\* the list chars with c before position i (0-based): chars.insert(i, c)
Insert(chars, i, c) ==
    [k \in 1..(Len(chars) + 1) |-> IF k <= i THEN chars[k] ELSE IF k = i + 1 THEN c ELSE chars[k - 1]]

\* The cursor after an insertion moved past the inserted symbol only.
AfterInsertByOne(i) == i + 1

\* the cursor after an insertion: i += 1 of line 28, then i += 1 of line 29
AfterInsert(i) == i + 2

\* rng.random() < rate can come out true, and can come out false
CanUndercut(rate) == \E r \in RandomDraws : r < rate
CanMiss(rate) == \E r \in RandomDraws : ~(r < rate)

\* lines 30-32 of _mutate: the optional final append
MutateEnd(chars, rate) ==
    (IF CanUndercut(rate) THEN { Append(chars, c) : c \in Drawn } ELSE {})
        \cup (IF CanMiss(rate) THEN { chars } ELSE {})

\* the while loop of _mutate from cursor i on: every list of at most cap
\* symbols it can end with.  The symbols before the cursor are final, so a
\* cursor beyond cap ends with a longer list.
RECURSIVE MutateFrom(_, _, _, _)
MutateFrom(chars, i, rate, cap) ==
    IF i > cap THEN {}
    ELSE IF ~(i < Len(chars)) THEN { cs \in MutateEnd(chars, rate) : Len(cs) <= cap }
    ELSE (IF CanUndercut(rate)
          THEN UNION { MutateFrom([chars EXCEPT ![i + 1] = c], i + 1, rate, cap) : c \in Drawn }
               \cup MutateFrom(Pop(chars, i), i, rate, cap)
               \cup UNION { MutateFrom(Insert(chars, i, c), AfterInsert(i), rate, cap) : c \in Drawn }
          ELSE {})
         \cup (IF CanMiss(rate) THEN MutateFrom(chars, i + 1, rate, cap) ELSE {})

\* _mutate(program, rng, rate): every program of at most cap symbols it can
\* return
Mutate(prog, rate, cap) == MutateFrom(prog, 0, rate, cap)

\* rng.randint(0, len(s)) with the upper end left out, as range() would.
CutPointsExclusive(s) == 0..(Len(s) - 1)

\* rng.randint(0, len(s)): both ends included
CutPoints(s) == 0..Len(s)

\* a[:ca] + b[cb:]
Splice(a, ca, b, cb) == SubSeq(a, 1, ca) \o SubSeq(b, cb + 1, Len(b))

\* _crossover(a, b, rng): every program it can return
Crossover(a, b) ==
    IF a = <<>> /\ b = <<>> THEN { <<>> }
    ELSE { Splice(a, ca, b, cb) : ca \in CutPoints(a), cb \in CutPoints(b) }

\* What a call returns or raises.
Returned(v) == [raised |-> FALSE, value |-> v]
Raised == [raised |-> TRUE, value |-> <<>>]

\* rng.choice(seq): IndexError on an empty sequence
Choice(seq) == IF seq = <<>> THEN { Raised } ELSE { Returned(seq[i]) : i \in 1..Len(seq) }

MinOf(xs) == CHOOSE m \in { xs[i] : i \in 1..Len(xs) } : \A i \in 1..Len(xs) : m <= xs[i]

\* The weights taken from the scores without the shift.
WeightsUnshifted(fitnesses) == fitnesses

\* lines 52-56 of _select
Weights(fitnesses) ==
    LET min_fit == MinOf(fitnesses)
    IN  IF min_fit < 0 THEN [i \in 1..Len(fitnesses) |-> fitnesses[i] - min_fit]
        ELSE fitnesses

\* the places rng.choices can draw when the total of the weights is
\* positive: those whose weight is positive
Drawable(weights) == { k \in 1..Len(weights) : weights[k] > 0 }

\* rng.choices(population, weights=weights, k=1)[0]
Choices(pop, weights) == { Returned(pop[i]) : i \in Drawable(weights) }

\* _select with the weighted draw in the place of the uniform fallback.
SelectNoFallback(pop, fitnesses) ==
    IF fitnesses = <<>> THEN Choice(pop)
    ELSE Choices(pop, Weights(fitnesses))

\* _select(population, fitnesses, rng): everything it can return or raise
Select(pop, fitnesses) ==
    IF fitnesses = <<>> THEN Choice(pop)
    ELSE LET weights == Weights(fitnesses)
         IN  IF SumSeq(weights) = 0 THEN Choice(pop)
             ELSE Choices(pop, weights)

\* pairs.sort(key=lambda p: p[1], reverse=True): the place (1-based) the
\* pair at place i moves to; the sort is stable, so equal scores keep their order
RankOf(ss, i) ==
    1 + Cardinality({ j \in 1..Len(ss) : ss[j] > ss[i] })
      + Cardinality({ j \in 1..(i - 1) : ss[j] = ss[i] })

\* The pairs left in the order of the population, the sort forgotten.
RankedUnsorted(xs, ss) == xs

\* the list xs reordered as the sort by the scores ss reorders it
Ranked(xs, ss) == [k \in 1..Len(xs) |-> xs[CHOOSE i \in 1..Len(xs) : RankOf(ss, i) = k]]

\* max(range(len(population)), key=lambda i: final_scores[i]), 1-based: the
\* first index with the highest score
BestIdx(ss) ==
    CHOOSE i \in 1..Len(ss) : (\A j \in 1..Len(ss) : ss[j] <= ss[i])
                                 /\ (\A k \in 1..(i - 1) : ss[k] < ss[i])

\* float("-inf"): below every score
NegInf == -1000000

(***************************************************************************)
(* execute, one action per branch of its loop                              *)
(***************************************************************************)
Command == program[instr_ptr + 1]

Running == pc = "loop" /\ LoopCond(program, steps, instr_ptr, executed)

ExecInit ==
    /\ program \in Programs
    /\ steps \in 0..MaxSteps
    /\ size \in 1..MaxSize
    /\ initial \in InitialTapes
    /\ tape = <<>>
    /\ bracket_map = EmptyMap
    /\ data_ptr = 0
    /\ instr_ptr = 0
    /\ executed = 0
    /\ pc = "start"

\* lines 56-71
Setup ==
    /\ pc = "start"
    /\ tape' = InitTape(initial, size)
    /\ bracket_map' = BuildBracketMap(program)
    /\ data_ptr' = 0
    /\ instr_ptr' = 0
    /\ executed' = 0
    /\ pc' = "loop"
    /\ UNCHANGED <<execArgs, evolveVars, selectVars, unitVars>>

\* lines 94-95, after a command that does not jump
Advance ==
    /\ instr_ptr' = instr_ptr + 1
    /\ executed' = executed + 1
    /\ UNCHANGED <<execArgs, bracket_map, pc, evolveVars, selectVars, unitVars>>

MoveRight ==
    /\ Running /\ Command = ">"
    /\ data_ptr' = PtrRight(data_ptr, size)
    /\ UNCHANGED tape
    /\ Advance

MoveLeft ==
    /\ Running /\ Command = "<"
    /\ data_ptr' = PtrLeft(data_ptr, size)
    /\ UNCHANGED tape
    /\ Advance

Increment ==
    /\ Running /\ Command = "+"
    /\ tape' = CellAdd(tape, data_ptr, 1)
    /\ UNCHANGED data_ptr
    /\ Advance

Decrement ==
    /\ Running /\ Command = "-"
    /\ tape' = CellAdd(tape, data_ptr, -1)
    /\ UNCHANGED data_ptr
    /\ Advance

LoopOpen ==
    /\ Running /\ Command = "["
    /\ instr_ptr' = OpenTarget(tape, data_ptr, bracket_map, instr_ptr) + 1
    /\ executed' = executed + 1
    /\ UNCHANGED <<execArgs, bracket_map, pc, tape, data_ptr, evolveVars, selectVars, unitVars>>

LoopClose ==
    /\ Running /\ Command = "]"
    /\ instr_ptr' = CloseTarget(tape, data_ptr, bracket_map, instr_ptr) + 1
    /\ executed' = executed + 1
    /\ UNCHANGED <<execArgs, bracket_map, pc, tape, data_ptr, evolveVars, selectVars, unitVars>>

Ignore ==
    /\ Running /\ Command \notin {">", "<", "+", "-", "[", "]"}
    /\ UNCHANGED <<tape, data_ptr>>
    /\ Advance

\* line 97
Return ==
    /\ pc = "loop" /\ ~LoopCond(program, steps, instr_ptr, executed)
    /\ pc' = "done"
    /\ UNCHANGED <<execArgs, tape, bracket_map, data_ptr, instr_ptr, executed, evolveVars, selectVars, unitVars>>

(***************************************************************************)
(* evolve, one action per step of a generation                             *)
(***************************************************************************)
MaxGenerations == 2     \* most generations evolve is asked for
MaxProgLen == 1         \* longest child the random source is let to produce
Instances == 1          \* instances: task inputs per batch
EvolveSteps == 2        \* steps: the budget of each execution

\* the values of population_size; elite_count ranges over 0..population_size + 1
PopulationSizes == {1, 2}

\* (mutation_rate, crossover_rate): both random tests open; no mutation and
\* always crossover; always mutation and never crossover
RatePairs == { <<50, 50>>, <<0, 100>>, <<100, 0>> }

\* task: two operands, each 0 or 1, on a two-cell tape
EvolveTask == MakeTask("addition", 2, -1, 1)

\* [task.generate_input(rng) for _ in range(instances)]: every batch
Batches == [1..Instances -> TaskInputs(EvolveTask)]

ExecIdle ==
    /\ program = <<>> /\ steps = 0 /\ size = 1 /\ initial = <<>>
    /\ tape = <<>> /\ bracket_map = EmptyMap
    /\ data_ptr = 0 /\ instr_ptr = 0 /\ executed = 0
    /\ pc = "idle"

EvolveIdle ==
    /\ population_size = 0 /\ elite_count = 0 /\ generations = 0
    /\ mutation_rate = 0 /\ crossover_rate = 0
    /\ population = <<>> /\ scores = <<>> /\ eval_inputs = <<>>
    /\ best_prog = <<>> /\ best_score = NegInf /\ gen = 0
    /\ new_population = <<>> /\ final_inputs = <<>> /\ final_scores = <<>>
    /\ phase = "idle" /\ result = <<>>

SelectIdle ==
    /\ sel_population = <<>> /\ sel_fitnesses = <<>>
    /\ sel_pc = "idle" /\ sel_outcome = Returned(<<>>)

CrossIdle ==
    /\ cx_a = <<>> /\ cx_b = <<>> /\ cut_a = 0 /\ cut_b = 0
    /\ cx_child = <<>> /\ cx_pc = "idle"

TaskIdle ==
    /\ self = MakeTask("addition", 2, 0, 0)
    /\ task_tape = <<>> /\ task_final = <<>> /\ task_value = 0
    /\ task_pc = "idle"

MainIdle ==
    /\ main_args = <<>> /\ main_pc = "idle"
    /\ main_error = "none" /\ main_output = <<>>

MutateIdle ==
    /\ mut_program = <<>> /\ mut_rate = 0 /\ mut_chars = <<>>
    /\ mut_i = 0 /\ mut_iters = 0 /\ mut_pc = "idle"

UnitIdle == CrossIdle /\ TaskIdle /\ MainIdle /\ MutateIdle

\* lines 98-103
EvolveInit ==
    /\ population_size \in PopulationSizes
    /\ elite_count \in 0..(population_size + 1)
    /\ generations \in 0..MaxGenerations
    /\ \E rates \in RatePairs : mutation_rate = rates[1] /\ crossover_rate = rates[2]
    /\ population = [i \in 1..population_size |-> <<>>]
    /\ best_prog = <<>>
    /\ best_score = NegInf
    /\ gen = 0
    /\ scores = <<>> /\ eval_inputs = <<>> /\ new_population = <<>>
    /\ final_inputs = <<>> /\ final_scores = <<>>
    /\ phase = "generation"
    /\ result = <<>>

\* line 106, entered while the for loop has a generation left
GenerateInputs ==
    /\ phase = "generation" /\ gen < generations
    /\ eval_inputs' \in Batches
    /\ scores' = <<>>
    /\ phase' = "score"
    /\ UNCHANGED <<evolveArgs, population, best_prog, best_score, gen, new_population,
                   final_inputs, final_scores, result, execVars, selectVars, unitVars>>

\* lines 108-109 of evaluate: inputs is given, so it is the batch scored on
\* and none is generated
InputsUsed(batch) == { batch }

\* The tapes of the batch being the lists execute runs on.
InputsAfterInPlace(prog, batch) ==
    [k \in 1..Len(batch) |-> Execute(prog, EvolveSteps, EvolveTask.size, batch[k])]

\* the batch after evaluate(prog, inputs=batch): execute runs on its own
\* list(initial) and fitness is given list(initial), so the tapes of the
\* batch are as before
InputsAfter(prog, batch) == batch

\* lines 107-109: the score of the next member of the population
ScoreMember ==
    /\ phase = "score" /\ Len(scores) < Len(population)
    /\ \E inputs \in InputsUsed(eval_inputs) :
          scores' = Append(scores, Evaluate(population[Len(scores) + 1], EvolveTask,
                                            EvolveSteps, inputs))
    /\ eval_inputs' = InputsAfter(population[Len(scores) + 1], eval_inputs)
    /\ UNCHANGED <<evolveArgs, population, best_prog, best_score, gen,
                   new_population, final_inputs, final_scores, phase, result,
                   execVars, selectVars, unitVars>>

\* lines 110-113
Rank ==
    /\ phase = "score" /\ Len(scores) = Len(population)
    /\ population' = Ranked(population, scores)
    /\ scores' = Ranked(scores, scores)
    /\ phase' = "track"
    /\ UNCHANGED <<evolveArgs, eval_inputs, best_prog, best_score, gen, new_population,
                   final_inputs, final_scores, result, execVars, selectVars, unitVars>>

\* The update test of the best-ever pair, taking ties as improvements.
ImprovesOrTies(score, best) == score >= best

\* scores[0] > best_score
Improves(score, best) == score > best

\* lines 115-117
TrackBest ==
    /\ phase = "track"
    /\ IF Improves(scores[1], best_score)
       THEN best_prog' = population[1] /\ best_score' = scores[1]
       ELSE UNCHANGED <<best_prog, best_score>>
    /\ phase' = "elites"
    /\ UNCHANGED <<evolveArgs, population, scores, eval_inputs, gen, new_population,
                   final_inputs, final_scores, result, execVars, selectVars, unitVars>>

\* The elites taken without the slice's cut at the end of the population.
ElitesUncut(pop, count) == [i \in 1..count |-> pop[Min(i, Len(pop))]]

\* population[:elite_count], for elite_count >= 0
Elites(pop, count) == SubSeq(pop, 1, Min(count, Len(pop)))

\* lines 126-129
SelectElites ==
    /\ phase = "elites"
    /\ new_population' = Elites(population, elite_count)
    /\ phase' = "breed"
    /\ UNCHANGED <<evolveArgs, population, scores, eval_inputs, best_prog, best_score, gen,
                   final_inputs, final_scores, result, execVars, selectVars, unitVars>>

\* lines 138-139: a child of the set children is mutated and appended
AddChild(children) ==
    \E mutated \in UNION { Mutate(child, mutation_rate, MaxProgLen) : child \in children } :
        /\ new_population' = Append(new_population, mutated)
        /\ UNCHANGED <<evolveArgs, population, scores, eval_inputs, best_prog, best_score,
                       gen, final_inputs, final_scores, phase, result, execVars, selectVars, unitVars>>

\* while len(new_population) < population_size
Breeding == phase = "breed" /\ Len(new_population) < population_size

\* lines 131-134, 138-139
BreedCrossover ==
    /\ Breeding
    /\ CanUndercut(crossover_rate)
    /\ LET parents == Select(population, scores)
       IN  /\ Raised \notin parents
           /\ AddChild(UNION { Crossover(parent1.value, parent2.value) :
                                   parent1 \in parents, parent2 \in parents })

\* lines 135-139
BreedCopy ==
    /\ Breeding
    /\ CanMiss(crossover_rate)
    /\ LET parents == Select(population, scores)
       IN  /\ Raised \notin parents
           /\ AddChild({ parent.value : parent \in parents })

\* line 141, and the for loop's next gen
EndGeneration ==
    /\ phase = "breed" /\ ~(Len(new_population) < population_size)
    /\ population' = new_population
    /\ gen' = gen + 1
    /\ phase' = "generation"
    /\ UNCHANGED <<evolveArgs, scores, eval_inputs, best_prog, best_score, new_population,
                   final_inputs, final_scores, result, execVars, selectVars, unitVars>>

\* line 144, entered when the for loop is exhausted
FinalInputs ==
    /\ phase = "generation" /\ ~(gen < generations)
    /\ final_inputs' \in Batches
    /\ final_scores' = <<>>
    /\ phase' = "final"
    /\ UNCHANGED <<evolveArgs, population, scores, eval_inputs, best_prog, best_score, gen,
                   new_population, result, execVars, selectVars, unitVars>>

\* lines 145-147: the final score of the next member of the population
FinalScoreMember ==
    /\ phase = "final" /\ Len(final_scores) < Len(population)
    /\ \E inputs \in InputsUsed(final_inputs) :
          final_scores' = Append(final_scores, Evaluate(population[Len(final_scores) + 1],
                                                        EvolveTask, EvolveSteps, inputs))
    /\ final_inputs' = InputsAfter(population[Len(final_scores) + 1], final_inputs)
    /\ UNCHANGED <<evolveArgs, population, scores, eval_inputs, best_prog, best_score, gen,
                   new_population, phase, result, execVars, selectVars, unitVars>>

\* The returned pair taken from the best-ever pair of the loop.
ReturnedPairBestEver(pop, fscores, bprog, bscore) == <<bprog, bscore>>

\* population[best_idx], final_scores[best_idx]
ReturnedPair(pop, fscores, bprog, bscore) == <<pop[BestIdx(fscores)], fscores[BestIdx(fscores)]>>

\* lines 148-149
ReturnBest ==
    /\ phase = "final" /\ Len(final_scores) = Len(population)
    /\ result' = ReturnedPair(population, final_scores, best_prog, best_score)
    /\ phase' = "returned"
    /\ UNCHANGED <<evolveArgs, population, scores, eval_inputs, best_prog, best_score, gen,
                   new_population, final_inputs, final_scores, execVars, selectVars, unitVars>>

NextEvolve ==
    \/ GenerateInputs
    \/ ScoreMember
    \/ Rank
    \/ TrackBest
    \/ SelectElites
    \/ BreedCrossover
    \/ BreedCopy
    \/ EndGeneration
    \/ FinalInputs
    \/ FinalScoreMember
    \/ ReturnBest

InitEvolve == EvolveInit /\ ExecIdle /\ SelectIdle /\ UnitIdle

SpecEvolve == InitEvolve /\ [][NextEvolve]_vars

(***************************************************************************)
(* _select, one action per return statement                                *)
(***************************************************************************)
MaxSelect == 2      \* largest population given to _select

\* the scores given to _select
FitnessValues == {-1, 0, 1}

\* populations of at most MaxSelect programs; the fitness list is parallel to
\* the population, or empty
SelectInit ==
    /\ sel_population \in SeqsUpTo(SeqsUpTo(Drawn, MaxProgLen), MaxSelect)
    /\ sel_fitnesses \in { <<>> } \cup [1..Len(sel_population) -> FitnessValues]
    /\ sel_pc = "call"
    /\ sel_outcome = Returned(<<>>)

SelectReturns ==
    /\ sel_pc = "call"
    /\ sel_outcome' \in Select(sel_population, sel_fitnesses)
    /\ sel_pc' = "done"
    /\ UNCHANGED <<sel_population, sel_fitnesses, execVars, evolveVars, unitVars>>

\* lines 50-51
SelectNoFitnesses == sel_fitnesses = <<>> /\ SelectReturns

\* lines 57-58
SelectZeroWeights ==
    /\ sel_fitnesses # <<>> /\ SumSeq(Weights(sel_fitnesses)) = 0
    /\ SelectReturns

\* line 59
SelectWeighted ==
    /\ sel_fitnesses # <<>> /\ SumSeq(Weights(sel_fitnesses)) # 0
    /\ SelectReturns

NextSelect ==
    \/ SelectNoFitnesses
    \/ SelectZeroWeights
    \/ SelectWeighted

InitSelect == SelectInit /\ ExecIdle /\ EvolveIdle /\ UnitIdle

SpecSelect == InitSelect /\ [][NextSelect]_vars

(***************************************************************************)
(* _crossover, one action per return statement                             *)
(***************************************************************************)
MaxCross == 2       \* longest parent given to _crossover

CrossInit ==
    /\ cx_a \in SeqsUpTo(Drawn, MaxCross)
    /\ cx_b \in SeqsUpTo(Drawn, MaxCross)
    /\ cut_a = 0 /\ cut_b = 0
    /\ cx_child = <<>>
    /\ cx_pc = "call"

\* lines 37-38
CrossoverEmpty ==
    /\ cx_pc = "call"
    /\ cx_a = <<>> /\ cx_b = <<>>
    /\ cx_child' = <<>>
    /\ cx_pc' = "done"
    /\ UNCHANGED <<cx_a, cx_b, cut_a, cut_b, execVars, evolveVars, selectVars,
                   taskVars, mainVars, mutateVars>>

\* lines 39-41
CrossoverCut ==
    /\ cx_pc = "call"
    /\ ~(cx_a = <<>> /\ cx_b = <<>>)
    /\ cut_a' \in CutPoints(cx_a)
    /\ cut_b' \in CutPoints(cx_b)
    /\ cx_child' = Splice(cx_a, cut_a', cx_b, cut_b')
    /\ cx_pc' = "done"
    /\ UNCHANGED <<cx_a, cx_b, execVars, evolveVars, selectVars,
                   taskVars, mainVars, mutateVars>>

NextCrossover ==
    \/ CrossoverEmpty
    \/ CrossoverCut

InitCrossover ==
    /\ CrossInit /\ ExecIdle /\ EvolveIdle /\ SelectIdle
    /\ TaskIdle /\ MainIdle /\ MutateIdle

SpecCrossover == InitCrossover /\ [][NextCrossover]_vars

(***************************************************************************)
(* generate_input of the two tasks                                         *)
(***************************************************************************)
GenerateInit ==
    /\ self \in { AdditionTask, TripleAdditionTask }
    /\ task_tape = <<>> /\ task_final = <<>> /\ task_value = 0
    /\ task_pc = "generate"

GenerateReturns ==
    /\ task_pc = "generate"
    /\ task_tape' \in TaskInputs(self)
    /\ task_pc' = "generated"
    /\ UNCHANGED <<self, task_final, task_value, execVars, evolveVars, selectVars,
                   crossVars, mainVars, mutateVars>>

\* AdditionTask.generate_input
GenerateAddition == self.kind = "addition" /\ GenerateReturns

\* TripleAdditionTask.generate_input
GenerateTriple == self.kind = "triple" /\ GenerateReturns

NextGenerate ==
    \/ GenerateAddition
    \/ GenerateTriple

InitGenerate ==
    /\ GenerateInit /\ ExecIdle /\ EvolveIdle /\ SelectIdle
    /\ CrossIdle /\ MainIdle /\ MutateIdle

SpecGenerate == InitGenerate /\ [][NextGenerate]_vars

(***************************************************************************)
(* fitness of the two tasks                                                *)
(***************************************************************************)
MaxCell == 1        \* largest absolute cell value given to fitness
\* length of the tapes given to fitness: the shortest that holds initial[2]
FitnessSize == 3

FitnessTapes == [1..FitnessSize -> (-MaxCell)..MaxCell]

FitnessInit ==
    /\ self \in { MakeTask("addition", FitnessSize, -MaxCell, MaxCell),
                  MakeTask("triple", FitnessSize, -MaxCell, MaxCell) }
    /\ task_tape \in FitnessTapes
    /\ task_final \in FitnessTapes
    /\ task_value = 0
    /\ task_pc = "fitness"

FitnessReturns ==
    /\ task_pc = "fitness"
    /\ task_value' = Fitness(self, task_tape, task_final)
    /\ task_pc' = "scored"
    /\ UNCHANGED <<self, task_tape, task_final, execVars, evolveVars, selectVars,
                   crossVars, mainVars, mutateVars>>

\* AdditionTask.fitness
FitnessAddition == self.kind = "addition" /\ FitnessReturns

\* TripleAdditionTask.fitness
FitnessTriple == self.kind = "triple" /\ FitnessReturns

NextFitness ==
    \/ FitnessAddition
    \/ FitnessTriple

InitFitness ==
    /\ FitnessInit /\ ExecIdle /\ EvolveIdle /\ SelectIdle
    /\ CrossIdle /\ MainIdle /\ MutateIdle

SpecFitness == InitFitness /\ [][NextFitness]_vars

(***************************************************************************)
(* main.py                                                                 *)
(***************************************************************************)
\* the keyword parameters in the signature of evolve; it takes no **kwargs
EvolveKeywords ==
    {"mutation_rate", "crossover_rate", "task", "instances", "steps", "rng", "verbose"}

\* the keyword arguments main passes to evolve
MainKeywords ==
    {"mutation_rate", "crossover_rate", "task", "instances", "steps", "init_length",
     "rng", "verbose"}

\* Valid command lines: the options that shape the run, each at its default
\* and at small values; the other options keep their defaults.
MainArgs ==
    [ population_size : {1, 2, 100},
      elite_count : {0, 1, 5},
      generations : {0, 1, 50},
      task : {"addition", "triple"},
      init_length : {0, 10} ]

\* a pair evolve can return: a program and its final score, which is a sum
\* of fitness values and so never positive
EvolveReturns ==
    { <<prog, score>> : prog \in SeqsUpTo(Drawn, MaxProgLen), score \in {-1, 0} }

\* lines 39-41
MainInit ==
    /\ main_args \in MainArgs
    /\ main_pc = "task"
    /\ main_error = "none"
    /\ main_output = <<>>

MainTaskBuilt ==
    /\ main_pc = "task"
    /\ main_pc' = "call"
    /\ UNCHANGED <<main_args, main_error, main_output, execVars, evolveVars, selectVars,
                   crossVars, taskVars, mutateVars>>

\* lines 43-46
MainAdditionTask == main_args.task = "addition" /\ MainTaskBuilt

\* lines 47-50
MainTripleTask == main_args.task # "addition" /\ MainTaskBuilt

\* lines 52-67: the call binds its keyword arguments to the parameters of
\* evolve or raises TypeError; when it binds, evolve runs and returns a pair,
\* which main prints on two lines
MainCallEvolve ==
    /\ main_pc = "call"
    /\ IF MainKeywords \subseteq EvolveKeywords
       THEN /\ main_output' \in EvolveReturns
            /\ main_pc' = "printed"
            /\ UNCHANGED main_error
       ELSE /\ main_error' = "TypeError"
            /\ main_pc' = "raised"
            /\ UNCHANGED main_output
    /\ UNCHANGED <<main_args, execVars, evolveVars, selectVars,
                   crossVars, taskVars, mutateVars>>

NextMain ==
    \/ MainAdditionTask
    \/ MainTripleTask
    \/ MainCallEvolve

InitMain ==
    /\ MainInit /\ ExecIdle /\ EvolveIdle /\ SelectIdle
    /\ CrossIdle /\ TaskIdle /\ MutateIdle

SpecMain == InitMain /\ [][NextMain]_vars

(***************************************************************************)
(* _mutate, one action per branch of its loop                              *)
(***************************************************************************)
MaxMutate == 2      \* longest program given to _mutate

\* The symbols of the programs given to _mutate: instructions other than
\* those the random source is let to draw.
Originals == {">", "<"}

\* lines 16-17
MutateInit ==
    /\ mut_program \in SeqsUpTo(Originals, MaxMutate)
    /\ mut_rate \in Rates
    /\ mut_chars = mut_program
    /\ mut_i = 0
    /\ mut_iters = 0
    /\ mut_pc = "scan"

\* while i < len(chars)
Scanning == mut_pc = "scan" /\ mut_i < Len(mut_chars)

\* the end of one pass through the body of the while loop
Scanned ==
    /\ mut_iters' = mut_iters + 1
    /\ UNCHANGED <<mut_program, mut_rate, mut_pc, execVars, evolveVars, selectVars,
                   crossVars, taskVars, mainVars>>

\* lines 21-22, 29
MutateSub ==
    /\ Scanning /\ CanUndercut(mut_rate)
    /\ \E c \in Drawn : mut_chars' = [mut_chars EXCEPT ![mut_i + 1] = c]
    /\ mut_i' = mut_i + 1
    /\ Scanned

\* lines 23-25
MutateDel ==
    /\ Scanning /\ CanUndercut(mut_rate)
    /\ mut_chars' = Pop(mut_chars, mut_i)
    /\ mut_i' = mut_i
    /\ Scanned

\* lines 26-29
MutateIns ==
    /\ Scanning /\ CanUndercut(mut_rate)
    /\ \E c \in Drawn : mut_chars' = Insert(mut_chars, mut_i, c)
    /\ mut_i' = AfterInsert(mut_i)
    /\ Scanned

\* line 19 false, line 29
MutateKeep ==
    /\ Scanning /\ CanMiss(mut_rate)
    /\ mut_chars' = mut_chars
    /\ mut_i' = mut_i + 1
    /\ Scanned

\* lines 30-32, after the loop
MutateReturns ==
    /\ mut_pc = "scan" /\ ~(mut_i < Len(mut_chars))
    /\ mut_chars' \in MutateEnd(mut_chars, mut_rate)
    /\ mut_pc' = "done"
    /\ UNCHANGED <<mut_program, mut_rate, mut_i, mut_iters, execVars, evolveVars, selectVars,
                   crossVars, taskVars, mainVars>>

NextMutate ==
    \/ MutateSub
    \/ MutateDel
    \/ MutateIns
    \/ MutateKeep
    \/ MutateReturns

InitMutate ==
    /\ MutateInit /\ ExecIdle /\ EvolveIdle /\ SelectIdle
    /\ CrossIdle /\ TaskIdle /\ MainIdle

SpecMutate == InitMutate /\ [][NextMutate]_vars

Next ==
    \/ Setup
    \/ MoveRight
    \/ MoveLeft
    \/ Increment
    \/ Decrement
    \/ LoopOpen
    \/ LoopClose
    \/ Ignore
    \/ Return

Init == ExecInit /\ EvolveIdle /\ SelectIdle /\ UnitIdle

Spec == Init /\ [][Next]_vars

\* execute is a sequential function: a step that can be taken is taken
FairSpec == Spec /\ WF_vars(Next)

(***************************************************************************)
(* Properties of execute                                                   *)
(***************************************************************************)
Cells == -128..127

\* the value execute starts cell i (1-based) from, before wrapping
Given(i) == IF i <= Len(initial) THEN initial[i] ELSE 0

NoBrackets(prog) == \A i \in 1..Len(prog) : prog[i] \notin {"[", "]"}

OnlyIgnored(prog) == \A i \in 1..Len(prog) : prog[i] \notin {">", "<", "+", "-", "[", "]"}

\* number of positions lo..hi (0-based, inclusive) of prog that hold ch
Count(prog, ch, lo, hi) == Cardinality({ i \in lo..hi : prog[i + 1] = ch })

C1_Bounds == executed \in 0..steps /\ instr_ptr \in 0..Len(program)

\* At the while test: the loop is left exactly when one of the two limits is
\* reached, and otherwise one more instruction is executed and counted.
C1_Stops ==
    pc = "loop" =>
        IF instr_ptr = Len(program) \/ executed = steps
        THEN pc' = "done" /\ executed' = executed /\ instr_ptr' = instr_ptr
        ELSE pc' = "loop" /\ executed' = executed + 1

\* C1: execute terminates for every program, tape size >= 1, initial tape and
\* steps >= 0: the counter stays <= steps and the instruction pointer within
\* [0, len(program)], the loop stops as soon as the instruction pointer equals
\* len(program) or the counter equals steps, and the call returns.
C1_ExecuteTerminates ==
    /\ C1_Bounds
    /\ [][C1_Bounds' /\ C1_Stops]_vars
    /\ <>(pc = "done")

\* A runaway loop cut by the budget: more instructions were executed than the
\* program has, and the instruction pointer never reached the end.
C1_Witness ==
    /\ pc = "done"
    /\ executed = steps
    /\ executed > Len(program)
    /\ instr_ptr < Len(program)

C2_InRange == \A i \in 1..Len(tape) : tape[i] \in Cells

C2_Arith ==
    /\ pc = "start" =>
          \A i \in 1..size : tape'[i] \in Cells /\ (tape'[i] - Given(i)) % 256 = 0
    /\ Running /\ Command = "+" =>
          tape'[data_ptr + 1] = (IF tape[data_ptr + 1] = 127 THEN -128 ELSE tape[data_ptr + 1] + 1)
    /\ Running /\ Command = "-" =>
          tape'[data_ptr + 1] = (IF tape[data_ptr + 1] = -128 THEN 127 ELSE tape[data_ptr + 1] - 1)

\* C2: every tape cell is in [-128, 127] in every state of execute: the
\* initial values are wrapped into the range, + maps v to v+1 except 127 to
\* -128, and - maps v to v-1 except -128 to 127.
C2_CellsAreSignedBytes == C2_InRange /\ [][C2_InRange' /\ C2_Arith]_vars

\* 127 was incremented to -128.
C2_Witness ==
    /\ pc = "done"
    /\ program = <<"+">>
    /\ executed = 1
    /\ Given(1) = 127
    /\ tape[1] = -128

C3_InRange == data_ptr \in 0..(size - 1)

C3_Moves ==
    /\ pc = "start" => data_ptr' = 0
    /\ Running /\ Command = ">" => data_ptr' = (IF data_ptr = size - 1 THEN 0 ELSE data_ptr + 1)
    /\ Running /\ Command = "<" => data_ptr' = (IF data_ptr = 0 THEN size - 1 ELSE data_ptr - 1)
    /\ Running /\ Command \notin {">", "<"} => data_ptr' = data_ptr
    /\ pc = "loop" /\ ~Running => data_ptr' = data_ptr

\* C3: the data pointer is an index in [0, size) in every state of execute:
\* it starts at 0, > from size-1 goes to 0, < from 0 goes to size-1, and no
\* other instruction changes it.
C3_DataPointerInTape == C3_InRange /\ [][C3_InRange' /\ C3_Moves]_vars

\* < has taken the pointer from cell 0 to the last cell of a two-cell tape.
C3_Witness ==
    /\ pc = "loop"
    /\ size = 2
    /\ executed = 1
    /\ program[1] = "<"
    /\ data_ptr = 1

\* The closing bracket a '[' at p is matched with: the first q after p up to
\* which the brackets from p on balance; -1 when there is none.
C4_Partner(prog, p) ==
    LET qs == { q \in (p + 1)..(Len(prog) - 1) :
                    Count(prog, "[", p, q) = Count(prog, "]", p, q) }
    IN  IF qs = {} THEN -1 ELSE CHOOSE q \in qs : \A r \in qs : q <= r

\* The pairs of matched brackets, from the text of the program alone.
C4_Pairs(prog) ==
    { <<p, C4_Partner(prog, p)>> :
        p \in { i \in 0..(Len(prog) - 1) : prog[i + 1] = "[" /\ C4_Partner(prog, i) # -1 } }

\* C4: the map of _build_bracket_map is symmetric and holds matched brackets
\* only: map[map[p]] = p for each key p, every key is the position of a
\* bracket, a '[' maps to a later ']', and a ']' met with an empty stack or a
\* '[' still on the stack at the end is no key.  The map is that of the program
\* text, whatever the tape.
C4_BracketMapSymmetric ==
    pc # "start" =>
        /\ \A p \in DOMAIN bracket_map :
              /\ p \in 0..(Len(program) - 1)
              /\ program[p + 1] \in {"[", "]"}
              /\ bracket_map[p] \in DOMAIN bracket_map
              /\ bracket_map[bracket_map[p]] = p
              /\ program[p + 1] = "[" => bracket_map[p] > p /\ program[bracket_map[p] + 1] = "]"
              /\ program[p + 1] = "]" => bracket_map[p] < p /\ program[bracket_map[p] + 1] = "["
        /\ DOMAIN bracket_map = { pq[1] : pq \in C4_Pairs(program) } \cup { pq[2] : pq \in C4_Pairs(program) }
        /\ \A pq \in C4_Pairs(program) : bracket_map[pq[1]] = pq[2]

\* A nested program whose outer '[' stays on the stack: only the inner pair
\* is in the map.
C4_Witness ==
    /\ pc = "loop"
    /\ program = <<"[", "[", "]">>
    /\ DOMAIN bracket_map = {1, 2}
    /\ bracket_map[1] = 2

\* C5: for a program p without brackets and a budget of k steps, execute runs
\* exactly min(k, len(p)) instructions, the first min(k, len(p)) symbols of p
\* in order, ignored characters included, and returns the tape that
\* execute(p[:k], steps=len(p)) returns.
C5_StepBudgetCaps ==
    NoBrackets(program) =>
        /\ instr_ptr = executed
        /\ pc = "done" =>
              /\ executed = Min(steps, Len(program))
              /\ tape = Execute(SubSeq(program, 1, Min(steps, Len(program))),
                                Len(program), size, initial)

\* The budget cut a bracket-free program short after an ignored character and
\* an instruction, before an instruction that would have changed the tape.
C5_Witness ==
    /\ pc = "done"
    /\ NoBrackets(program)
    /\ 0 < steps /\ steps < Len(program)
    /\ \E i \in 1..steps : program[i] \in {".", ","}
    /\ tape # InitTape(initial, size)
    /\ tape # Execute(program, Len(program), size, initial)

\* C6: for the empty program and for programs of ignored characters only,
\* execute returns a tape of exactly size cells, the initial values cut or
\* zero-padded to size and wrapped; execution changes no cell, so an in-range
\* initial tape of length size comes back unchanged.
C6_IgnoredProgramKeepsTape ==
    pc # "start" /\ OnlyIgnored(program) =>
        /\ Len(tape) = size
        /\ \A i \in 1..size : tape[i] \in Cells /\ (tape[i] - Given(i)) % 256 = 0
        /\ (Len(initial) = size /\ \A i \in 1..size : initial[i] \in Cells) => tape = initial

\* Two ignored characters were executed on an in-range tape of full length.
C6_Witness ==
    /\ pc = "done"
    /\ Len(program) = 2 /\ OnlyIgnored(program)
    /\ executed = 2
    /\ Len(initial) = size /\ initial[1] = 127
    /\ tape = initial

\* The bracket matched with the bracket at pos, from the text of the program
\* alone; -1 when the bracket at pos is unmatched.
C15_Match(prog, pos) ==
    LET with == { pq \in C4_Pairs(prog) : pq[1] = pos \/ pq[2] = pos }
    IN  IF with = {} THEN -1
        ELSE LET pq == CHOOSE x \in with : TRUE
             IN  IF pq[1] = pos THEN pq[2] ELSE pq[1]

C15_Jumps ==
    Running /\ Command \in {"[", "]"} /\ C15_Match(program, instr_ptr) # -1 =>
        /\ Command = "[" =>
              instr_ptr' = (IF tape[data_ptr + 1] = 0
                            THEN C15_Match(program, instr_ptr) + 1
                            ELSE instr_ptr + 1)
        /\ Command = "]" =>
              instr_ptr' = (IF tape[data_ptr + 1] # 0
                            THEN C15_Match(program, instr_ptr) + 1
                            ELSE instr_ptr + 1)
        /\ tape' = tape
        /\ data_ptr' = data_ptr
        /\ executed' = executed + 1

\* C15: executing a matched '[' at p with partner q moves the instruction
\* pointer to q+1 if and only if the current cell is 0, otherwise to p+1;
\* executing a matched ']' at q with partner p moves it to p+1 if and only if
\* the current cell is not 0, otherwise to q+1; in all four cases the tape and
\* the data pointer are unchanged and exactly one step is consumed.
C15_MatchedBracketsJump == [][C15_Jumps]_vars

\* A loop body was run once and its ']' jumped back: the instruction
\* pointer is just after the '[' with the cell still not zero.
C15_Witness ==
    /\ pc = "loop"
    /\ program = <<"[", "-", "]">>
    /\ executed = 3
    /\ instr_ptr = 1
    /\ tape[data_ptr + 1] # 0

\* C16: executing an unmatched '[' or ']' is a no-op whatever the current
\* cell holds: the bracket is no key of the bracket map, the lookup gives no
\* error, the tape and the data pointer are unchanged, the instruction pointer
\* advances by exactly 1 and one step is consumed.
C16_Skips ==
    Running /\ Command \in {"[", "]"} /\ C15_Match(program, instr_ptr) = -1 =>
        /\ instr_ptr \notin DOMAIN bracket_map
        /\ tape' = tape
        /\ data_ptr' = data_ptr
        /\ instr_ptr' = instr_ptr + 1
        /\ executed' = executed + 1
        /\ pc' = "loop"

C16_UnmatchedBracketsSkip == [][C16_Skips]_vars

\* An unmatched ']' and then an unmatched '[' were executed on a cell that
\* is 0: the run went through both to the end of the program.
C16_Witness ==
    /\ pc = "done"
    /\ program = <<"]", "[">>
    /\ executed = 2
    /\ instr_ptr = 2
    /\ tape[data_ptr + 1] = 0

(***************************************************************************)
(* Properties of evolve                                                    *)
(***************************************************************************)
C7_Size ==
    /\ Len(population) = population_size
    /\ Len(new_population) <= population_size

C7_Built ==
    /\ phase = "elites" =>
          new_population' = [i \in 1..Min(elite_count, population_size) |-> population[i]]
    /\ phase = "breed" /\ phase' = "breed" =>
          /\ Len(new_population') = Len(new_population) + 1
          /\ SubSeq(new_population', 1, Len(new_population)) = new_population
    /\ phase = "breed" /\ phase' # "breed" =>
          /\ Len(new_population) = population_size
          /\ population' = new_population

\* C7: with populationSize >= 1 and any eliteCount >= 0, also one greater than
\* populationSize, the population holds exactly populationSize programs at
\* the start and the end of every generation and at the final evaluation: the
\* next generation is the elites plus offspring appended one at a time until
\* its length is populationSize.
C7_PopulationSizeKept == C7_Size /\ [][C7_Size' /\ C7_Built]_vars

\* A generation was completed with more elites asked for than the population
\* has members.
C7_Witness ==
    /\ phase = "generation"
    /\ gen >= 1
    /\ elite_count = population_size + 1
    /\ Len(population) = population_size

C8_Pair == <<best_prog, best_score>>

C8_Tracked ==
    /\ best_score' >= best_score
    /\ phase = "track" => \A j \in 1..Len(scores) : scores[j] <= scores[1]
    /\ phase = "track" /\ scores[1] > best_score => C8_Pair' = <<population[1], scores[1]>>
    /\ phase = "track" /\ scores[1] <= best_score => C8_Pair' = C8_Pair
    /\ phase # "track" => C8_Pair' = C8_Pair

\* C8: across the generations of a run the tracked best-ever score never
\* decreases, and the tracked (program, score) pair changes only in a
\* generation whose top-ranked score is strictly greater than the tracked
\* score, and then becomes that generation's top-ranked program and score; a
\* top score equal to or below the tracked score leaves the pair unchanged.
C8_BestEverMonotone == [][C8_Tracked]_vars

\* In the second generation another program tied with the tracked score and
\* the tracked pair stayed.
C8_Witness ==
    /\ phase = "elites"
    /\ gen = 1
    /\ scores[1] = best_score
    /\ population[1] # best_prog

\* C9: evolve returns the best pair of the final evaluation round: the program
\* is a member of the last population, the score is that program's score on
\* the final input batch, no member of the last population scores higher on
\* that batch, and with generations = 0 the program is the empty program.
\* The best-ever pair tracked in the loop is not what is returned.
C9_ReturnsFinalRoundBest ==
    phase = "returned" =>
        /\ \E i \in 1..Len(population) :
              /\ result[1] = population[i]
              /\ result[2] = final_scores[i]
        /\ result[2] = Evaluate(result[1], EvolveTask, EvolveSteps, final_inputs)
        /\ \A j \in 1..Len(population) :
              Evaluate(population[j], EvolveTask, EvolveSteps, final_inputs) <= result[2]
        /\ generations = 0 => result[1] = <<>>

\* After two generations the returned program is not the tracked best
\* program and its final score is below the tracked best score.
C9_Witness ==
    /\ phase = "returned"
    /\ generations = 2
    /\ result[1] # best_prog
    /\ result[2] < best_score

\* the list of (program, score) pairs
C18_Pairs(pop, ss) == [i \in 1..Len(pop) |-> <<pop[i], ss[i]>>]

\* how often the pair is a member of the list pairs
C18_Copies(pairs, pair) == Cardinality({ i \in 1..Len(pairs) : pairs[i] = pair })

\* After ranking and until the next generation replaces the population: the
\* scores do not increase along the list.
C18_Sorted ==
    phase \in {"track", "elites", "breed"} =>
        /\ Len(scores) = Len(population)
        /\ \A i \in 1..(Len(scores) - 1) : scores[i] >= scores[i + 1]

C18_Kept ==
    /\ phase = "score" /\ phase' = "track" =>
          \A i \in 1..Len(population) :
              C18_Copies(C18_Pairs(population', scores'), <<population[i], scores[i]>>)
                  = C18_Copies(C18_Pairs(population, scores), <<population[i], scores[i]>>)
    /\ phase \in {"track", "elites", "breed"} /\ phase' # "generation" =>
          population' = population /\ scores' = scores
    /\ elite_count <= population_size =>
          /\ phase = "elites" =>
                /\ Len(new_population') = elite_count
                /\ \A i \in 1..elite_count : new_population'[i] = population[i]
          /\ phase = "breed" =>
                /\ Len(new_population') >= elite_count
                /\ \A i \in 1..elite_count : new_population'[i] = population[i]
          /\ phase = "breed" /\ phase' = "generation" =>
                \A i \in 1..elite_count : population'[i] = population[i]

\* C18: in every generation with 0 <= eliteCount <= populationSize, after
\* ranking the scores are in non-increasing order with each program paired
\* with its own score, and the first eliteCount entries of the next generation
\* are, in the same order, the eliteCount top-ranked programs of the current
\* generation, character for character.
C18_ElitesCopied == C18_Sorted /\ [][C18_Sorted' /\ C18_Kept]_vars

\* Of two programs with different scores the top-ranked one was taken over
\* as the only elite of the next generation, whose second member differs.
C18_Witness ==
    /\ phase = "generation"
    /\ gen = 2
    /\ population_size = 2
    /\ elite_count = 1
    /\ scores = <<0, -1>>
    /\ population[1] = <<>>
    /\ population[2] # <<>>
    /\ best_prog = <<>>

\* the batch is generated once, before the first member is scored
C20_Batch ==
    /\ phase = "generation" /\ phase' = "score" =>
          /\ scores' = <<>>
          /\ Len(eval_inputs') = Instances
    /\ phase = "score" => eval_inputs' = eval_inputs
    /\ phase = "score" /\ phase' = "score" => population' = population

\* scoring a member appends the one score its program has on the batch
C20_Score ==
    phase = "score" /\ phase' = "score" =>
        scores' = Append(scores, Evaluate(population[Len(scores) + 1], EvolveTask,
                                          EvolveSteps, eval_inputs))

\* equal programs have equal scores, wherever they stand in the population
C20_SamePrograms ==
    phase = "score" =>
        \A i, j \in 1..Len(scores) : population[i] = population[j] => scores[i] = scores[j]

\* C20: within one generation every member of the population is scored on
\* the same batch of input tapes with the same cell values: the batch is
\* generated once before scoring, scoring a member leaves the tapes of the
\* batch as they were and draws nothing, so the score of a program is that of
\* its text on the batch, independent of its place in the population and of
\* the programs scored before it.
C20_SharedBatch == C20_SamePrograms /\ [][C20_SamePrograms' /\ C20_Batch /\ C20_Score]_vars

\* A program that changes its tape was scored before the empty program, on
\* a batch that then still held the generated values.
C20_Witness ==
    /\ phase = "score"
    /\ population = << <<"+">>, <<>> >>
    /\ eval_inputs[1] = <<1, 0>>
    /\ scores = <<-1, 0>>

(***************************************************************************)
(* Properties of _select                                                   *)
(***************************************************************************)
\* every member of the population, as a returned value
C10_Members == { Returned(sel_population[i]) : i \in 1..Len(sel_population) }

\* the fitness list is empty, or its (shifted) weights all equal zero
C10_NoWeight ==
    \/ sel_fitnesses = <<>>
    \/ LET m == MinOf(sel_fitnesses)
       IN  \A i \in 1..Len(sel_fitnesses) :
               (IF m < 0 THEN sel_fitnesses[i] - m ELSE sel_fitnesses[i]) = 0

\* C10 as stated: for any population and fitness list _select does not raise
\* and returns a member of the population by uniform choice, so that every
\* member can be returned.
C10_AnyListUniform ==
    /\ Select(sel_population, sel_fitnesses) = C10_Members
    /\ sel_pc = "done" => sel_outcome \in C10_Members

\* C10, amended: for a non-empty population and a fitness list that is empty
\* or parallel to it, _select does not raise and returns a member of the
\* population; when the list is empty or its (shifted) weights all equal zero
\* the choice is uniform, so that every member can be returned.
C10_SelectReturnsMember ==
    sel_population # <<>> =>
        /\ Select(sel_population, sel_fitnesses) # {}
        /\ Select(sel_population, sel_fitnesses) \subseteq C10_Members
        /\ C10_NoWeight => Select(sel_population, sel_fitnesses) = C10_Members
        /\ sel_pc = "done" => sel_outcome \in C10_Members

\* Two different programs with the same negative score: the second one was
\* returned.
C10_Witness ==
    /\ sel_pc = "done"
    /\ Len(sel_population) = 2
    /\ sel_population[1] # sel_population[2]
    /\ sel_fitnesses = <<-1, -1>>
    /\ sel_outcome = Returned(sel_population[2])

\* the lowest score of the list
C19_Lowest ==
    CHOOSE v \in { sel_fitnesses[i] : i \in 1..Len(sel_fitnesses) } :
        \A i \in 1..Len(sel_fitnesses) : v <= sel_fitnesses[i]

\* the weight of the program at place i, from the scores alone
C19_Weight(i) ==
    IF C19_Lowest < 0 THEN sel_fitnesses[i] - C19_Lowest ELSE sel_fitnesses[i]

\* the programs at the places whose weight is positive, as returned values
C19_Positive ==
    { Returned(sel_population[i]) : i \in { k \in 1..Len(sel_population) : C19_Weight(k) > 0 } }

\* C19: in _select with a non-empty population whose scores are not all
\* equal, the weight of program i is its score minus the lowest score when the
\* lowest score is negative and its score otherwise; every weight is >= 0, a
\* program of weight 0 is never drawn and every program of positive weight can
\* be; so with a negative lowest score a program holding it is never selected.
C19_WeightedDraw ==
    (/\ sel_population # <<>>
     /\ Len(sel_fitnesses) = Len(sel_population)
     /\ \E i, j \in 1..Len(sel_fitnesses) : sel_fitnesses[i] # sel_fitnesses[j]) =>
        /\ \A i \in 1..Len(sel_fitnesses) :
              /\ Weights(sel_fitnesses)[i] = C19_Weight(i)
              /\ C19_Weight(i) >= 0
              /\ i \in Drawable(Weights(sel_fitnesses)) <=> C19_Weight(i) > 0
              /\ (C19_Lowest < 0 /\ sel_fitnesses[i] = C19_Lowest) =>
                    i \notin Drawable(Weights(sel_fitnesses))
        /\ Select(sel_population, sel_fitnesses) = C19_Positive
        /\ \A i \in 1..Len(sel_population) :
              (/\ C19_Weight(i) = 0
               /\ \A j \in 1..Len(sel_population) :
                     sel_population[j] = sel_population[i] => C19_Weight(j) = 0) =>
                  Returned(sel_population[i]) \notin Select(sel_population, sel_fitnesses)
        /\ sel_pc = "done" => sel_outcome \in C19_Positive

\* Scores -1 and 0 of two different programs: the weights are 0 and 1 and the
\* second program was returned.
C19_Witness ==
    /\ sel_pc = "done"
    /\ Len(sel_population) = 2
    /\ sel_population[1] # sel_population[2]
    /\ sel_fitnesses = <<-1, 0>>
    /\ sel_outcome = Returned(sel_population[2])

(***************************************************************************)
(* Properties of _crossover                                                *)
(***************************************************************************)
\* the first i symbols of a followed by the symbols of b after its first j,
\* symbol by symbol
C11_Cut(a, i, b, j) ==
    [k \in 1..(i + Len(b) - j) |-> IF k <= i THEN a[k] ELSE b[j + (k - i)]]

\* every child the cut points 0..len(a) and 0..len(b) allow
C11_Children(a, b) == { C11_Cut(a, i, b, j) : i \in 0..Len(a), j \in 0..Len(b) }

\* C11: every result of _crossover(a, b) is a[:i] + b[j:] for cut points
\* 0 <= i <= len(a) and 0 <= j <= len(b), and every such pair can occur: cut
\* points 0 and 0 give b, cut points len(a) and len(b) give a, two empty
\* parents give the empty program, and no child is longer than
\* len(a) + len(b).
C11_CrossoverCuts ==
    /\ Crossover(cx_a, cx_b) = C11_Children(cx_a, cx_b)
    /\ cx_b \in Crossover(cx_a, cx_b)
    /\ cx_a \in Crossover(cx_a, cx_b)
    /\ (cx_a = <<>> /\ cx_b = <<>>) => Crossover(cx_a, cx_b) = { <<>> }
    /\ cx_pc = "done" =>
          /\ cut_a \in 0..Len(cx_a) /\ cut_b \in 0..Len(cx_b)
          /\ cx_child = C11_Cut(cx_a, cut_a, cx_b, cut_b)
          /\ (cut_a = 0 /\ cut_b = 0) => cx_child = cx_b
          /\ (cut_a = Len(cx_a) /\ cut_b = Len(cx_b)) => cx_child = cx_a
          /\ Len(cx_child) <= Len(cx_a) + Len(cx_b)

\* Both cut points at the end of two different non-empty parents: the child
\* is the first parent.
C11_Witness ==
    /\ cx_pc = "done"
    /\ cx_a = <<"+", "+">> /\ cx_b = <<"-", "-">>
    /\ cut_a = 2 /\ cut_b = 2
    /\ cx_child = cx_a

(***************************************************************************)
(* Properties of _mutate                                                   *)
(***************************************************************************)
\* the symbols of s from position lo (0-based) on
C17_From(s, lo) == [k \in 1..(Len(s) - lo) |-> s[lo + k]]

\* At the while test after mut_iters iterations: the symbols from the cursor
\* on are the original symbols that had no decision yet, in their order, so
\* every symbol the cursor meets is an original one and none is met twice.
C17_Cursor ==
    /\ mut_iters \in 0..Len(mut_program)
    /\ mut_i \in 0..Len(mut_chars)
    /\ mut_pc = "scan" => C17_From(mut_chars, mut_i) = C17_From(mut_program, mut_iters)
    /\ mut_i <= 2 * mut_iters
    /\ mut_pc = "done" =>
          /\ mut_iters = Len(mut_program)
          /\ Len(mut_chars) \in 0..(2 * Len(mut_program) + 1)
          /\ mut_rate = 0 => mut_chars = mut_program

\* One iteration: the symbols before the cursor stay, and the cursor and
\* the list change as one of no mutation or substitution, deletion, insertion.
C17_Iteration ==
    Scanning =>
        /\ mut_iters' = mut_iters + 1
        /\ \A k \in 1..mut_i : mut_chars'[k] = mut_chars[k]
        /\ \/ /\ mut_i' = mut_i + 1
              /\ Len(mut_chars') = Len(mut_chars)
              /\ C17_From(mut_chars', mut_i + 1) = C17_From(mut_chars, mut_i + 1)
           \/ /\ mut_i' = mut_i
              /\ C17_From(mut_chars', mut_i) = C17_From(mut_chars, mut_i + 1)
           \/ /\ mut_i' = mut_i + 2
              /\ C17_From(mut_chars', mut_i + 1) = C17_From(mut_chars, mut_i)
        /\ mut_rate = 0 => mut_chars' = mut_chars /\ mut_i' = mut_i + 1

\* C17: one _mutate pass moves a cursor over the list: substitution replaces
\* the symbol at the cursor and advances by 1, deletion removes it without
\* advancing, insertion puts a symbol before it and advances by 2, no
\* mutation advances by 1.  So every original symbol gets exactly one
\* decision and inserted symbols none, the scan ends after exactly
\* len(program) iterations, the result has between 0 and 2*len(program)+1
\* symbols, and with rate 0 it equals the input.
C17_MutateScansOnce == C17_Cursor /\ [][C17_Cursor' /\ C17_Iteration]_vars

\* Both symbols of a program got a symbol inserted before them and one more
\* was appended: the longest result.
C17_Witness ==
    /\ mut_pc = "done"
    /\ Len(mut_program) = 2
    /\ mut_iters = 2
    /\ Len(mut_chars) = 5
    /\ mut_chars[2] = mut_program[1] /\ mut_chars[4] = mut_program[2]

(***************************************************************************)
(* Properties of the tasks                                                 *)
(***************************************************************************)
\* the number of operands, from the name of the task
C12_Operands == IF self.kind = "addition" THEN 2 ELSE 3

\* C12: for the two-operand and the three-operand task built with their
\* default bounds, every tape generate_input returns has length size, its
\* operands (the first two, respectively three cells) are >= 0, every other
\* cell is 0, and the sum of the operands is <= 127, within the signed-byte
\* range.
C12_GeneratedTapeFits ==
    task_pc = "generated" =>
        /\ Len(task_tape) = self.size
        /\ \A i \in 1..C12_Operands : task_tape[i] >= 0
        /\ \A i \in (C12_Operands + 1)..Len(task_tape) : task_tape[i] = 0
        /\ (IF C12_Operands = 2
            THEN task_tape[1] + task_tape[2]
            ELSE task_tape[1] + task_tape[2] + task_tape[3]) <= 127

\* The three-operand task drew its largest operands: the sum is 126.
C12_Witness ==
    /\ task_pc = "generated"
    /\ self = TripleAdditionTask
    /\ task_tape = <<42, 42, 42, 0, 0, 0, 0, 0>>

\* final[0] minus the sum of the operands of initial
C13_Off ==
    task_final[1] - (IF self.kind = "addition"
                     THEN task_tape[1] + task_tape[2]
                     ELSE task_tape[1] + task_tape[2] + task_tape[3])

\* C13: for both tasks fitness(initial, final) is minus the absolute
\* difference between final[0] and the sum of the operands of initial: never
\* positive, 0 exactly when final[0] is that sum, -1 when final[0] is off by
\* one, and the same whatever the other cells of final hold.
C13_FitnessIsMinusError ==
    task_pc = "scored" =>
        /\ task_value = (IF C13_Off >= 0 THEN -C13_Off ELSE C13_Off)
        /\ task_value <= 0
        /\ task_value = 0 <=> C13_Off = 0
        /\ C13_Off \in {-1, 1} => task_value = -1
        /\ \A other \in FitnessTapes :
              other[1] = task_final[1] => Fitness(self, task_tape, other) = task_value

\* The three-operand task with final[0] one below the sum 1 + 1 + (-1), and
\* other cells of final that are not zero.
C13_Witness ==
    /\ task_pc = "scored"
    /\ self.kind = "triple"
    /\ task_tape = <<1, 1, -1>>
    /\ task_final = <<0, 1, 1>>
    /\ task_value = -1

(***************************************************************************)
(* Properties of main                                                      *)
(***************************************************************************)
\* C14: run with valid arguments, main passes to evolve only parameters that
\* evolve accepts, evolve runs to completion, and main then prints the
\* winning program followed by its final score; no run ends in an error
\* before printing.
C14_MainPrints ==
    /\ main_error = "none"
    /\ main_pc # "raised"
    /\ main_pc \notin {"task", "call"} =>
          /\ MainKeywords \subseteq EvolveKeywords
          /\ main_pc = "printed"
          /\ Len(main_output) = 2

====
